---- MODULE Spec2Model ----
(***************************************************************************)
(* Model of the security-risk classification engine of visualizer.py:     *)
(* EnhancedNetworkVisualizer._analyze_security_risk (the rule classifier)  *)
(* and _calculate_subnet_security_score (the subnet scorer), and of the    *)
(* report run that uses them: main, _load_data, _build_nacl_map,           *)
(* _generate_vpc_security_summary and _generate_subnet_card.               *)
(*                                                                         *)
(* The engine keeps no state between calls.  Spec checks the classifier    *)
(* and the scorer call by call: its variables are the frame of the         *)
(* classifier call in progress (its arguments and its return value), the   *)
(* frame of the last scorer call, and one history variable that logs the   *)
(* classifier calls of the run.  SpecReport follows one run of main from   *)
(* the command line to the exit code.                                      *)
(*                                                                         *)
(* Reason strings are the source's strings without their leading emoji.    *)
(***************************************************************************)
EXTENDS Integers, Sequences, FiniteSets, TLC

VARIABLES
    rule,           \* argument `rule` of the classifier call
    direction,      \* argument `direction` of the classifier call
    risk,           \* value returned by the last classifier call
    nacl_info,      \* argument of the last scorer call
    security_score, \* value returned by the last scorer call
    calls,          \* history: arguments and verdict of every classifier call of the run
    pc,             \* "call": classifier about to run on (rule, direction); "return": it returned
    argv,           \* the command line main parses
    file,           \* the discovery file on disk: its state and, when readable JSON, its content
    data,           \* self.data, the loaded document
    rpc,            \* position of the report run
    vpc_index,      \* index in data['vpcs'] of the VPC whose section is being generated
    nacl_map,       \* nacl_map of the VPC section being generated
    vpc_summary,    \* what _generate_vpc_security_summary computed for that VPC
    cards,          \* the subnet cards rendered for that VPC, in page order
    raised,         \* the exception propagating to main's handler, "none" when there is none
    report_written, \* the report file has been written
    exit_code,      \* exit status of the process
    cidr_arg,       \* argument `cidr` of the _interpret_cidr call
    cidr_explain    \* value returned by _interpret_cidr

engineVars == <<rule, direction, risk, nacl_info, security_score, calls, pc>>

reportVars ==
    <<argv, file, data, rpc, vpc_index, nacl_map, vpc_summary, cards,
      raised, report_written, exit_code>>

explainVars == <<cidr_arg, cidr_explain>>

vars == <<engineVars, reportVars, explainVars>>

(***************************************************************************)
(* Bounds and input universes                                              *)
(***************************************************************************)
MaxRules == 2

MaxCalls == 3

InternetCidr == "0.0.0.0/0"

Actions == {"allow", "deny", "ALLOW"}

Directions == {"inbound", "outbound"}

Protocols == {"tcp", "-1"}

Cidrs == {InternetCidr, "10.0.0.0/16", "203.0.113.5/32", "::/0"}

CriticalPorts ==
    {"22", "3389", "3306", "5432", "1521", "27017", "6379", "5984",
     "9200", "9300", "23", "0-65535", "All"}

HighPorts == {"445", "139", "21", "25", "53", "135", "137", "138"}

MediumPorts == {"8080", "8000", "8443", "8888", "9090", "9091", "5000"}

LowPorts == {"80"}

HttpsPort == "443"

AllPortsMarkers == {"0-65535", "All"}

UnlistedPorts == {"20-25", "0-1024", "22-22", "8081", "1024-65535", "all"}

PortRanges ==
    CriticalPorts \cup HighPorts \cup MediumPorts \cup LowPorts
        \cup {HttpsPort} \cup UnlistedPorts

ReservedRuleNumber == 32767

RuleNumbers == {100, ReservedRuleNumber}

\* Rules as loaded from the JSON document; port_range is an optional key.
Rules ==
    [action : Actions, protocol : Protocols, cidr : Cidrs,
     port_range : PortRanges, rule_number : {100}]
    \cup
    [action : Actions, protocol : Protocols, cidr : Cidrs,
     rule_number : {100}]

SshRule ==
    [action |-> "allow", protocol |-> "tcp", cidr |-> InternetCidr,
     port_range |-> "22", rule_number |-> 100]

HttpRule ==
    [action |-> "allow", protocol |-> "tcp", cidr |-> InternetCidr,
     port_range |-> "80", rule_number |-> 100]

\* Rules classified between two classifications of the rule under test.
OtherRules == {SshRule, HttpRule}

NoVerdict == [level |-> "unset", reason |-> "unset"]

NoBinding == [nacl_id |-> "unset"]

NoScore == [overall |-> "unset"]

NoData == [loaded |-> FALSE]

NoSummary == [severity |-> "unset"]

\* The exit status while the process has not yet reached exit(main()).
NoExit == -1

\* Values of the report run's variables while no report run is modelled.
ReportIdle ==
    /\ argv = "idle"
    /\ file = [state |-> "idle"]
    /\ data = NoData
    /\ rpc = "idle"
    /\ vpc_index = 0
    /\ nacl_map = <<>>
    /\ vpc_summary = NoSummary
    /\ cards = <<>>
    /\ raised = "none"
    /\ report_written = FALSE
    /\ exit_code = NoExit

NotExplained == "unset"

\* Values of the explainer's variables while no explainer call is modelled.
ExplainIdle ==
    /\ cidr_arg = "0.0.0.0/0"
    /\ cidr_explain = NotExplained

Levels == <<"none", "low", "medium", "high", "critical">>

BucketLevels == <<"critical", "high", "medium", "low">>

(***************************************************************************)
(* dict.get(key, default)                                                  *)
(***************************************************************************)
Get(d, key, default) == IF key \in DOMAIN d THEN d[key] ELSE default

(***************************************************************************)
(* _analyze_security_risk                                                  *)
(***************************************************************************)
\* Mutation: the verdict is not reset at entry, the previous call's verdict is kept.
StaleRisk ==
    IF risk["level"] = "unset" THEN [level |-> "none", reason |-> ""] ELSE risk

InitialRisk == [level |-> "none", reason |-> ""]

\* Mutation: HTTPS is flagged like HTTP.
HttpsBranchFlagged(port_range, otherwise) ==
    IF port_range = "443"
    THEN [level |-> "low",
          reason |-> "Standard HTTPS port for web traffic. This is acceptable."]
    ELSE otherwise

HttpsBranch(port_range, otherwise) ==
    IF port_range = "443"
    THEN [level |-> "none",
          reason |-> "Standard HTTPS port for web traffic. This is acceptable."]
    ELSE otherwise

\* Mutation: HTTP is put in the medium tier.
LowBranchMedium(port_range, otherwise) ==
    IF port_range = "80"
    THEN [level |-> "medium",
          reason |-> "Standard HTTP port open. Consider using HTTPS (443) for encrypted traffic."]
    ELSE otherwise

\* Mutation: port_range.startswith('80') instead of port_range == '80'.
LowBranchPrefix(port_range, otherwise) ==
    IF port_range \in {"80", "8000", "8080", "8081"}
    THEN [level |-> "low",
          reason |-> "Standard HTTP port open. Consider using HTTPS (443) for encrypted traffic."]
    ELSE otherwise

LowBranch(port_range, otherwise) ==
    IF port_range = "80"
    THEN [level |-> "low",
          reason |-> "Standard HTTP port open. Consider using HTTPS (443) for encrypted traffic."]
    ELSE otherwise

\* Mutation: port 5000 is put in the low tier.
DevPortBranchLow(port_range, otherwise) ==
    IF port_range = "5000"
    THEN [level |-> "low",
          reason |-> "MEDIUM: Common development port exposed. Review if public access is required."]
    ELSE otherwise

DevPortBranch(port_range, otherwise) ==
    IF port_range = "5000"
    THEN [level |-> "medium",
          reason |-> "MEDIUM: Common development port exposed. Review if public access is required."]
    ELSE otherwise

AdminPortBranches(port_range, otherwise) ==
    IF port_range = "8080" \/ port_range = "8000"
    THEN [level |-> "medium",
          reason |-> "MEDIUM: Development/admin port exposed to Internet. Should typically be restricted to internal access."]
    ELSE IF port_range = "8443" \/ port_range = "8888"
    THEN [level |-> "medium",
          reason |-> "MEDIUM: Alternative HTTPS/admin port exposed. Verify if intentional and restrict if possible."]
    ELSE IF port_range = "9090" \/ port_range = "9091"
    THEN [level |-> "medium",
          reason |-> "MEDIUM: Management/monitoring port exposed. Should be restricted to authorized networks."]
    ELSE otherwise

WindowsRpcBranch(port_range, otherwise) ==
    IF port_range = "135" \/ port_range = "137" \/ port_range = "138"
    THEN [level |-> "high",
          reason |-> "HIGH: Windows RPC/NetBIOS ports exposed. Common attack vector. Block from Internet."]
    ELSE otherwise

InsecureProtocolBranches(port_range, otherwise) ==
    IF port_range = "21"
    THEN [level |-> "high",
          reason |-> "HIGH: FTP port 21 open to Internet. FTP is unencrypted. Use SFTP/FTPS instead."]
    ELSE IF port_range = "25"
    THEN [level |-> "high",
          reason |-> "HIGH: SMTP port 25 exposed to Internet. Common spam relay vector. Should be restricted."]
    ELSE IF port_range = "53"
    THEN [level |-> "high",
          reason |-> "HIGH: DNS port 53 open to Internet. Can be used for DNS amplification attacks."]
    ELSE otherwise

\* Mutation: the NetBIOS port 139 is forgotten.
SmbBranchOnly445(port_range, otherwise) ==
    IF port_range = "445"
    THEN [level |-> "high",
          reason |-> "HIGH: SMB/NetBIOS port exposed to Internet. Common ransomware and malware target. Block immediately."]
    ELSE otherwise

SmbBranch(port_range, otherwise) ==
    IF port_range = "445" \/ port_range = "139"
    THEN [level |-> "high",
          reason |-> "HIGH: SMB/NetBIOS port exposed to Internet. Common ransomware and malware target. Block immediately."]
    ELSE otherwise

\* Mutation: Telnet gets the level of the source comment above it ("High risks").
TelnetBranchHigh(port_range, otherwise) ==
    IF port_range = "23"
    THEN [level |-> "high",
          reason |-> "CRITICAL: Telnet port 23 open to Internet! Telnet is unencrypted and insecure. Use SSH instead."]
    ELSE otherwise

TelnetBranch(port_range, otherwise) ==
    IF port_range = "23"
    THEN [level |-> "critical",
          reason |-> "CRITICAL: Telnet port 23 open to Internet! Telnet is unencrypted and insecure. Use SSH instead."]
    ELSE otherwise

AllPortsBranch(port_range, otherwise) ==
    IF port_range = "0-65535" \/ port_range = "All"
    THEN [level |-> "critical",
          reason |-> "CRITICAL: ALL ports open to Internet! This is extremely permissive and insecure. Restrict to specific required ports."]
    ELSE otherwise

DatabaseBranches(port_range, otherwise) ==
    IF port_range = "3306"
    THEN [level |-> "critical",
          reason |-> "CRITICAL: MySQL port 3306 exposed to Internet! Database should not be publicly accessible. Use private subnets."]
    ELSE IF port_range = "5432"
    THEN [level |-> "critical",
          reason |-> "CRITICAL: PostgreSQL port 5432 exposed to Internet! Database should not be publicly accessible. Use private subnets."]
    ELSE IF port_range = "1521"
    THEN [level |-> "critical",
          reason |-> "CRITICAL: Oracle port 1521 exposed to Internet! Database should not be publicly accessible. Use private subnets."]
    ELSE IF port_range = "27017"
    THEN [level |-> "critical",
          reason |-> "CRITICAL: MongoDB port 27017 exposed to Internet! Database should not be publicly accessible. Use private subnets."]
    ELSE IF port_range = "6379"
    THEN [level |-> "critical",
          reason |-> "CRITICAL: Redis port 6379 exposed to Internet! Cache/database should not be publicly accessible. Use private subnets."]
    ELSE IF port_range = "5984"
    THEN [level |-> "critical",
          reason |-> "CRITICAL: CouchDB port 5984 exposed to Internet! Database should not be publicly accessible."]
    ELSE IF port_range = "9200" \/ port_range = "9300"
    THEN [level |-> "critical",
          reason |-> "CRITICAL: Elasticsearch exposed to Internet! Search engine should not be publicly accessible."]
    ELSE otherwise

RemoteAccessBranches(port_range, otherwise) ==
    IF port_range = "22"
    THEN [level |-> "critical",
          reason |-> "CRITICAL: SSH port 22 open to entire Internet! This allows anyone to attempt SSH access. Restrict to specific IPs."]
    ELSE IF port_range = "3389"
    THEN [level |-> "critical",
          reason |-> "CRITICAL: RDP port 3389 open to entire Internet! This allows anyone to attempt remote desktop access. Restrict to specific IPs."]
    ELSE otherwise

\* The if/elif chain taken by an inbound allow rule from 0.0.0.0/0, in source order.
InternetChain(port_range, otherwise) ==
    RemoteAccessBranches(port_range,
      DatabaseBranches(port_range,
        AllPortsBranch(port_range,
          TelnetBranch(port_range,
            SmbBranch(port_range,
              InsecureProtocolBranches(port_range,
                WindowsRpcBranch(port_range,
                  AdminPortBranches(port_range,
                    DevPortBranch(port_range,
                      LowBranch(port_range,
                        HttpsBranch(port_range, otherwise)))))))))))

\* Mutation: every inbound allow rule from a non-Internet source is flagged.
PrivateBranchAnyPort(port_range, otherwise) ==
    [level |-> "medium",
     reason |-> "MEDIUM: All ports open. Consider restricting to specific required ports for better security."]

\* Mutation: the non-Internet branch reuses the Internet branch's level.
PrivateBranchCritical(port_range, otherwise) ==
    IF port_range = "0-65535" \/ port_range = "All"
    THEN [level |-> "critical",
          reason |-> "MEDIUM: All ports open. Consider restricting to specific required ports for better security."]
    ELSE otherwise

\* The branch for inbound allow rules whose source is not 0.0.0.0/0.
PrivateBranch(port_range, otherwise) ==
    IF port_range = "0-65535" \/ port_range = "All"
    THEN [level |-> "medium",
          reason |-> "MEDIUM: All ports open. Consider restricting to specific required ports for better security."]
    ELSE otherwise

\* Mutation: the first condition does not test the action.
_analyze_security_risk_any_action(r, dir) ==
    LET action == r["action"]
        protocol == r["protocol"]
        cidr == r["cidr"]
        port_range == Get(r, "port_range", "All")
    IN  IF dir = "inbound" /\ cidr = "0.0.0.0/0"
        THEN InternetChain(port_range, InitialRisk)
        ELSE IF action = "allow" /\ dir = "inbound"
        THEN PrivateBranch(port_range, InitialRisk)
        ELSE InitialRisk

\* Mutation: rule.get('port_range') without the default 'All'.
_analyze_security_risk_no_default(r, dir) ==
    LET action == r["action"]
        protocol == r["protocol"]
        cidr == r["cidr"]
        port_range == Get(r, "port_range", "None")
    IN  IF action = "allow" /\ dir = "inbound" /\ cidr = "0.0.0.0/0"
        THEN InternetChain(port_range, InitialRisk)
        ELSE IF action = "allow" /\ dir = "inbound"
        THEN PrivateBranch(port_range, InitialRisk)
        ELSE InitialRisk

_analyze_security_risk(r, dir) ==
    LET action == r["action"]
        protocol == r["protocol"]
        cidr == r["cidr"]
        port_range == Get(r, "port_range", "All")
    IN  IF action = "allow" /\ dir = "inbound" /\ cidr = "0.0.0.0/0"
        THEN InternetChain(port_range, InitialRisk)
        ELSE IF action = "allow" /\ dir = "inbound"
        THEN PrivateBranch(port_range, InitialRisk)
        ELSE InitialRisk

(***************************************************************************)
(* _calculate_subnet_security_score                                        *)
(***************************************************************************)
EmptyRisks == [critical |-> <<>>, high |-> <<>>, medium |-> <<>>, low |-> <<>>]

\* Mutation: <= instead of <, the reserved rule is scored.
ScoreRuleInclusive(risks, r) ==
    IF r["rule_number"] <= ReservedRuleNumber
    THEN LET v == _analyze_security_risk(r, "inbound")
         IN  IF v["level"] \in {"critical", "high", "medium", "low"}
             THEN [risks EXCEPT ![v["level"]] =
                      Append(@, [rule_number |-> r["rule_number"],
                                 reason |-> v["reason"],
                                 rule |-> r])]
             ELSE risks
    ELSE risks

\* Mutation: 'low' is missing from the list of bucketed levels.
ScoreRuleNoLow(risks, r) ==
    IF r["rule_number"] < ReservedRuleNumber
    THEN LET v == _analyze_security_risk(r, "inbound")
         IN  IF v["level"] \in {"critical", "high", "medium"}
             THEN [risks EXCEPT ![v["level"]] =
                      Append(@, [rule_number |-> r["rule_number"],
                                 reason |-> v["reason"],
                                 rule |-> r])]
             ELSE risks
    ELSE risks

\* One iteration of `for rule in nacl_info.get('inbound_rules', [])`.
ScoreRule(risks, r) ==
    IF r["rule_number"] < ReservedRuleNumber
    THEN LET v == _analyze_security_risk(r, "inbound")
         IN  IF v["level"] \in {"critical", "high", "medium", "low"}
             THEN [risks EXCEPT ![v["level"]] =
                      Append(@, [rule_number |-> r["rule_number"],
                                 reason |-> v["reason"],
                                 rule |-> r])]
             ELSE risks
    ELSE risks

RECURSIVE ScoreLoop(_, _, _)
ScoreLoop(rules, i, risks) ==
    IF i > Len(rules)
    THEN risks
    ELSE ScoreLoop(rules, i + 1, ScoreRule(risks, rules[i]))

\* Mutation: the chain tests the buckets from the lowest severity up.
OverallOfLowestFirst(risks) ==
    IF Len(risks["low"]) > 0 THEN "low"
    ELSE IF Len(risks["medium"]) > 0 THEN "medium"
    ELSE IF Len(risks["high"]) > 0 THEN "high"
    ELSE IF Len(risks["critical"]) > 0 THEN "critical"
    ELSE "secure"

OverallOf(risks) ==
    IF Len(risks["critical"]) > 0 THEN "critical"
    ELSE IF Len(risks["high"]) > 0 THEN "high"
    ELSE IF Len(risks["medium"]) > 0 THEN "medium"
    ELSE IF Len(risks["low"]) > 0 THEN "low"
    ELSE "secure"

_calculate_subnet_security_score(info) ==
    LET risks == ScoreLoop(Get(info, "inbound_rules", <<>>), 1, EmptyRisks)
    IN  [overall |-> OverallOf(risks),
         risks |-> risks,
         total_issues |-> Len(risks["critical"]) + Len(risks["high"])
                            + Len(risks["medium"]) + Len(risks["low"])]

(***************************************************************************)
(* Inputs of the calls made in a run                                       *)
(***************************************************************************)
SeqsUpTo(S, n) == UNION {[1..k -> S] : k \in 0..n}

\* A rule with its source widened to the whole Internet.
Widened(r) == [r EXCEPT !["cidr"] = InternetCidr]

\* Inputs of the classifier calls that follow the first one: the first input
\* again, the first rule widened to the Internet, or one of OtherRules.
LaterInputs ==
    {<<calls[1]["rule"], calls[1]["direction"]>>,
     <<Widened(calls[1]["rule"]), calls[1]["direction"]>>}
        \cup (OtherRules \X {"inbound"})

\* Rules a scored binding is made of: the rule just classified and the SSH
\* rule, each under an ordinary and under the reserved rule number.
BindingRules ==
    {[r EXCEPT !["rule_number"] = n] : r \in {rule, SshRule}, n \in RuleNumbers}

\* A binding as _build_nacl_map creates it.
Binding(inbound) ==
    [nacl_id |-> "acl-1", nacl_name |-> "N/A", is_default |-> FALSE,
     inbound_rules |-> inbound, outbound_rules |-> <<>>]

(***************************************************************************)
(* Actions                                                                 *)
(***************************************************************************)
Init ==
    /\ rule \in Rules
    /\ direction \in Directions
    /\ risk = NoVerdict
    /\ nacl_info = NoBinding
    /\ security_score = NoScore
    /\ calls = <<>>
    /\ pc = "call"
    /\ ReportIdle
    /\ ExplainIdle

\* self._analyze_security_risk(rule, direction)
Classify ==
    /\ pc = "call"
    /\ risk' = _analyze_security_risk(rule, direction)
    /\ calls' = Append(calls, [rule |-> rule, direction |-> direction,
                               risk |-> risk'])
    /\ pc' = "return"
    /\ UNCHANGED <<rule, direction, nacl_info, security_score>>
    /\ UNCHANGED <<reportVars, explainVars>>

\* self._calculate_subnet_security_score(nacl_info), made after the first
\* classifier call and before the next one
Score ==
    /\ pc = "return"
    /\ Len(calls) = 1
    /\ nacl_info = NoBinding
    /\ \E inbound \in SeqsUpTo(BindingRules, MaxRules) :
          /\ nacl_info' = Binding(inbound)
          /\ security_score' = _calculate_subnet_security_score(nacl_info')
    /\ UNCHANGED <<rule, direction, risk, calls, pc>>
    /\ UNCHANGED <<reportVars, explainVars>>

\* The caller moves on to its next classifier call.
NextCall ==
    /\ pc = "return"
    /\ Len(calls) < MaxCalls
    /\ \E input \in LaterInputs :
          /\ rule' = input[1]
          /\ direction' = input[2]
    /\ nacl_info' = NoBinding
    /\ security_score' = NoScore
    /\ pc' = "call"
    /\ UNCHANGED <<risk, calls>>
    /\ UNCHANGED <<reportVars, explainVars>>

Next == Classify \/ Score \/ NextCall

Spec == Init /\ [][Next]_vars

(***************************************************************************)
(* _build_nacl_map                                                         *)
(***************************************************************************)
DisplayLimit == 5

\* s[:n]
Take(s, n) == SubSeq(s, 1, IF Len(s) < n THEN Len(s) ELSE n)

\* d[key] = value
Put(d, key, value) ==
    [k \in DOMAIN d \cup {key} |-> IF k = key THEN value ELSE d[k]]

\* Mutation: the reserved rules are dropped before the lists are cut.
NaclBindingFilterFirst(nacl) ==
    LET NotReserved(r) == Get(r, "rule_number", 0) # ReservedRuleNumber
    IN  [nacl_id |-> nacl["nacl_id"],
         nacl_name |-> Get(nacl, "name", "N/A"),
         is_default |-> Get(nacl, "is_default", FALSE),
         inbound_rules |->
             Take(SelectSeq(Get(nacl, "inbound_rules", <<>>), NotReserved), DisplayLimit),
         outbound_rules |->
             Take(SelectSeq(Get(nacl, "outbound_rules", <<>>), NotReserved), DisplayLimit)]

\* The dict stored for every subnet the NACL lists.
NaclBinding(nacl) ==
    [nacl_id |-> nacl["nacl_id"],
     nacl_name |-> Get(nacl, "name", "N/A"),
     is_default |-> Get(nacl, "is_default", FALSE),
     inbound_rules |-> Take(Get(nacl, "inbound_rules", <<>>), DisplayLimit),
     outbound_rules |-> Take(Get(nacl, "outbound_rules", <<>>), DisplayLimit)]

\* Mutation: nacl_map.setdefault(subnet_id, ...), the first NACL wins.
RECURSIVE BindSubnetsKeepFirst(_, _, _, _)
BindSubnetsKeepFirst(map, nacl, ids, j) ==
    IF j > Len(ids)
    THEN map
    ELSE BindSubnetsKeepFirst(
            IF ids[j] \in DOMAIN map THEN map ELSE Put(map, ids[j], NaclBinding(nacl)),
            nacl, ids, j + 1)

\* for subnet_id in nacl.get('associated_subnets', [])
RECURSIVE BindSubnets(_, _, _, _)
BindSubnets(map, nacl, ids, j) ==
    IF j > Len(ids)
    THEN map
    ELSE BindSubnets(Put(map, ids[j], NaclBinding(nacl)), nacl, ids, j + 1)

\* for nacl in vpc.get('nacls', [])
RECURSIVE BuildLoop(_, _, _)
BuildLoop(map, nacls, i) ==
    IF i > Len(nacls)
    THEN map
    ELSE BuildLoop(
            BindSubnets(map, nacls[i],
                        Get(nacls[i], "associated_subnets", <<>>), 1),
            nacls, i + 1)

_build_nacl_map(vpc) == BuildLoop(<<>>, Get(vpc, "nacls", <<>>), 1)

(***************************************************************************)
(* Exceptions: a subscript on a key the dict does not have raises KeyError *)
(***************************************************************************)
\* rule['action'], rule['protocol'], rule['cidr']
ClassifyRaises(r) == ~({"action", "protocol", "cidr"} \subseteq DOMAIN r)

ScoreRaises(info) ==
    LET rules == Get(info, "inbound_rules", <<>>)
    IN  \E i \in DOMAIN rules :
            \/ "rule_number" \notin DOMAIN rules[i]
            \/ /\ rules[i]["rule_number"] < ReservedRuleNumber
               /\ ClassifyRaises(rules[i])

(***************************************************************************)
(* _generate_vpc_security_summary                                          *)
(***************************************************************************)
\* Mutation: the entry is tagged with the subnet id where the name belongs.
TagEntryIdAsName(subnet, item) ==
    [subnet_name |-> subnet["subnet_id"],
     subnet_id |-> subnet["subnet_id"],
     rule_number |-> item["rule_number"],
     reason |-> item["reason"]]

TagEntry(subnet, item) ==
    [subnet_name |-> Get(subnet, "name", "N/A"),
     subnet_id |-> subnet["subnet_id"],
     rule_number |-> item["rule_number"],
     reason |-> item["reason"]]

\* Mutation: a subnet's entries are put in front of the entries collected so far.
AddSubnetRisksInFront(all_risks, subnet, map) ==
    IF subnet["subnet_id"] \in DOMAIN map
    THEN LET score == _calculate_subnet_security_score(map[subnet["subnet_id"]])
         IN  [level \in DOMAIN all_risks |->
                 [i \in DOMAIN score["risks"][level] |->
                     TagEntry(subnet, score["risks"][level][i])]
                 \o all_risks[level]]
    ELSE all_risks

\* One iteration of `for subnet in vpc.get('subnets', [])`.
AddSubnetRisks(all_risks, subnet, map) ==
    IF subnet["subnet_id"] \in DOMAIN map
    THEN LET score == _calculate_subnet_security_score(map[subnet["subnet_id"]])
         IN  [level \in DOMAIN all_risks |->
                 all_risks[level] \o
                 [i \in DOMAIN score["risks"][level] |->
                     TagEntry(subnet, score["risks"][level][i])]]
    ELSE all_risks

RECURSIVE SummaryLoop(_, _, _, _)
SummaryLoop(subnets, i, all_risks, map) ==
    IF i > Len(subnets)
    THEN all_risks
    ELSE SummaryLoop(subnets, i + 1, AddSubnetRisks(all_risks, subnets[i], map), map)

TotalIssues(all_risks) ==
    Len(all_risks["critical"]) + Len(all_risks["high"])
        + Len(all_risks["medium"]) + Len(all_risks["low"])

\* Mutation: the high bucket is tested before the critical one.
VpcSeverityHighFirst(all_risks) ==
    IF TotalIssues(all_risks) = 0 THEN "no_issues"
    ELSE IF Len(all_risks["high"]) > 0 THEN "high"
    ELSE IF Len(all_risks["critical"]) > 0 THEN "critical"
    ELSE IF Len(all_risks["medium"]) > 0 THEN "medium"
    ELSE "low"

\* "no_issues" stands for the "No Security Issues Detected" box.
VpcSeverity(all_risks) ==
    IF TotalIssues(all_risks) = 0 THEN "no_issues"
    ELSE IF Len(all_risks["critical"]) > 0 THEN "critical"
    ELSE IF Len(all_risks["high"]) > 0 THEN "high"
    ELSE IF Len(all_risks["medium"]) > 0 THEN "medium"
    ELSE "low"

_generate_vpc_security_summary(vpc, map) ==
    LET all_risks == SummaryLoop(Get(vpc, "subnets", <<>>), 1, EmptyRisks, map)
    IN  [all_risks |-> all_risks,
         total_issues |-> TotalIssues(all_risks),
         severity |-> VpcSeverity(all_risks)]

\* Mutation: nacl_map[subnet_id] is read without the membership test.
SummaryRaisesUnguarded(vpc, map) ==
    LET subnets == Get(vpc, "subnets", <<>>)
    IN  \E i \in DOMAIN subnets :
            \/ subnets[i]["subnet_id"] \notin DOMAIN map
            \/ ScoreRaises(map[subnets[i]["subnet_id"]])

SummaryRaises(vpc, map) ==
    LET subnets == Get(vpc, "subnets", <<>>)
    IN  \E i \in DOMAIN subnets :
            /\ subnets[i]["subnet_id"] \in DOMAIN map
            /\ ScoreRaises(map[subnets[i]["subnet_id"]])

(***************************************************************************)
(* _generate_subnet_card                                                   *)
(***************************************************************************)
NoBadge == [overall |-> "no badge"]

NoAcl == [nacl_name |-> "no acl section"]

\* Mutation: the rule lists are rendered without the rule_number test.
ShownRulesUnfiltered(rules) == rules

\* if rule['rule_number'] < 32767
ShownRules(rules) ==
    LET Shown(r) == r["rule_number"] < ReservedRuleNumber
    IN  SelectSeq(rules, Shown)

\* Mutation: only a critical rule is given the security-risk class.
InboundLineCriticalOnly(r) ==
    LET verdict == _analyze_security_risk(r, "inbound")
    IN  [rule_number |-> r["rule_number"],
         action_class |-> r["action"],
         risk_class |-> IF verdict["level"] = "critical" THEN verdict["level"] ELSE ""]

InboundLine(r) ==
    LET verdict == _analyze_security_risk(r, "inbound")
    IN  [rule_number |-> r["rule_number"],
         action_class |-> r["action"],
         risk_class |-> IF verdict["level"] # "none" THEN verdict["level"] ELSE ""]

OutboundLine(r) ==
    [rule_number |-> r["rule_number"], action_class |-> r["action"]]

\* The list under "Security Issues Detected".
IssueList(score) ==
    LET Items(level) ==
            [i \in DOMAIN score["risks"][level] |->
                [rule_number |-> score["risks"][level][i]["rule_number"],
                 reason |-> score["risks"][level][i]["reason"]]]
    IN  Items("critical") \o Items("high") \o Items("medium") \o Items("low")

_generate_subnet_card(subnet, map, subnet_type) ==
    LET subnet_id == subnet["subnet_id"]
        bound == subnet_id \in DOMAIN map
        score == IF bound
                 THEN _calculate_subnet_security_score(map[subnet_id])
                 ELSE NoScore
    IN  [subnet_id |-> subnet_id,
         subnet_name |-> Get(subnet, "name", "N/A"),
         subnet_type |-> subnet_type,
         security_score |-> score,
         badge |-> IF bound
                   THEN [overall |-> score["overall"],
                         total_issues |-> score["total_issues"]]
                   ELSE NoBadge,
         issues |-> IF bound /\ score["total_issues"] > 0
                    THEN IssueList(score)
                    ELSE <<>>,
         acl |-> IF bound
                 THEN LET inbound == ShownRules(map[subnet_id]["inbound_rules"])
                          outbound == ShownRules(map[subnet_id]["outbound_rules"])
                      IN  [nacl_name |-> map[subnet_id]["nacl_name"],
                           is_default |-> map[subnet_id]["is_default"],
                           inbound |-> [i \in DOMAIN inbound |-> InboundLine(inbound[i])],
                           outbound |-> [i \in DOMAIN outbound |-> OutboundLine(outbound[i])]]
                 ELSE NoAcl]

CardRaises(subnet, map) ==
    /\ subnet["subnet_id"] \in DOMAIN map
    /\ LET info == map[subnet["subnet_id"]]
           Displayed(rules) ==
               \E i \in DOMAIN rules :
                   \/ "rule_number" \notin DOMAIN rules[i]
                   \/ /\ rules[i]["rule_number"] < ReservedRuleNumber
                      /\ ClassifyRaises(rules[i])
       IN  \/ ScoreRaises(info)
           \/ Displayed(info["inbound_rules"])
           \/ Displayed(info["outbound_rules"])

(***************************************************************************)
(* _generate_vpc_section_with_flow: the subnet groups                      *)
(***************************************************************************)
SubnetsOfType(vpc, type) ==
    LET OfType(subnet) == Get(subnet, "subnet_type", "None") = type
    IN  SelectSeq(Get(vpc, "subnets", <<>>), OfType)

SubnetCards(vpc, map) ==
    LET public_subnets == SubnetsOfType(vpc, "Public")
        private_subnets == SubnetsOfType(vpc, "Private")
    IN  [i \in DOMAIN public_subnets |->
            _generate_subnet_card(public_subnets[i], map, "public")]
        \o
        [i \in DOMAIN private_subnets |->
            _generate_subnet_card(private_subnets[i], map, "private")]

CardsRaise(vpc, map) ==
    LET shown == SubnetsOfType(vpc, "Public") \o SubnetsOfType(vpc, "Private")
    IN  \E i \in DOMAIN shown : CardRaises(shown[i], map)

(***************************************************************************)
(* Discovery documents of the report run                                   *)
(*                                                                         *)
(* Subnets and VPCs carry every key the renderer subscripts (cidr_block,   *)
(* availability_zone, available_ip_count, vpc_id); these keys are left out *)
(* of the records.  Every NACL carries nacl_id.                            *)
(***************************************************************************)
MaxSubnets == 3

MaxNacls == 2

\* {**f, **g}
Merge(f, g) ==
    [k \in DOMAIN f \cup DOMAIN g |-> IF k \in DOMAIN g THEN g[k] ELSE f[k]]

RdpRule ==
    [action |-> "allow", protocol |-> "tcp", cidr |-> InternetCidr,
     port_range |-> "3389", rule_number |-> 90]

SmbRule ==
    [action |-> "allow", protocol |-> "tcp", cidr |-> InternetCidr,
     port_range |-> "445", rule_number |-> 150]

Http200Rule == [HttpRule EXCEPT !["rule_number"] = 200]

HttpsRule ==
    [action |-> "allow", protocol |-> "tcp", cidr |-> InternetCidr,
     port_range |-> "443", rule_number |-> 300]

\* All traffic from the VPC's own range; no port_range key.
PrivateAllRule ==
    [action |-> "allow", protocol |-> "-1", cidr |-> "10.0.0.0/16",
     rule_number |-> 110]

\* An allow-everything rule under the reserved rule number.
ReservedAllowRule ==
    [action |-> "allow", protocol |-> "-1", cidr |-> InternetCidr,
     port_range |-> "All", rule_number |-> ReservedRuleNumber]

\* A rule without the required key 'action'.
MalformedRule ==
    [protocol |-> "tcp", cidr |-> InternetCidr, port_range |-> "22",
     rule_number |-> 120]

\* Rules without the required key 'rule_number', 'protocol' or 'cidr'.
UnnumberedRule ==
    [action |-> "allow", protocol |-> "tcp", cidr |-> InternetCidr,
     port_range |-> "22"]

NoProtocolRule ==
    [action |-> "allow", cidr |-> InternetCidr, port_range |-> "22",
     rule_number |-> 130]

NoCidrRule ==
    [action |-> "allow", protocol |-> "tcp", port_range |-> "22",
     rule_number |-> 140]

DenyRule(n) ==
    [action |-> "deny", protocol |-> "tcp", cidr |-> InternetCidr,
     port_range |-> "22", rule_number |-> n]

\* k deny rules numbered 1..k
DenyRules(k) == [i \in 1..k |-> DenyRule(i)]

OutboundAllRule(n) ==
    [action |-> "allow", protocol |-> "-1", cidr |-> InternetCidr,
     rule_number |-> n]

\* A NACL before it is given its identity: the subnets it lists and its
\* rule lists; any of the three keys may be missing.
NaclChoices ==
    {<<>>,
     [associated_subnets |-> <<"subnet-a">>],
     [associated_subnets |-> <<"subnet-b">>,
      inbound_rules |-> <<>>, outbound_rules |-> <<>>],
     [associated_subnets |-> <<"subnet-b">>,
      inbound_rules |-> <<ReservedAllowRule>>,
      outbound_rules |-> <<OutboundAllRule(100), OutboundAllRule(ReservedRuleNumber)>>],
     [associated_subnets |-> <<"subnet-a">>,
      inbound_rules |-> <<SshRule>>, outbound_rules |-> <<OutboundAllRule(100)>>],
     [associated_subnets |-> <<"subnet-c", "subnet-a">>,
      inbound_rules |-> <<SshRule>>, outbound_rules |-> <<OutboundAllRule(100)>>],
     [associated_subnets |-> <<"subnet-b">>,
      inbound_rules |-> <<SshRule, Http200Rule, RdpRule>>,
      outbound_rules |-> [i \in 1..(DisplayLimit + 1) |-> OutboundAllRule(i)]],
     [associated_subnets |-> <<"subnet-b">>,
      inbound_rules |-> <<PrivateAllRule, HttpsRule>>],
     [associated_subnets |-> <<"subnet-a">>,
      inbound_rules |-> <<Http200Rule>>],
     [associated_subnets |-> <<"subnet-c", "subnet-a">>,
      inbound_rules |-> <<Http200Rule>>],
     [associated_subnets |-> <<"subnet-b">>,
      inbound_rules |-> <<SmbRule>>],
     [associated_subnets |-> <<"subnet-a">>,
      inbound_rules |-> DenyRules(DisplayLimit) \o <<SshRule>>],
     [associated_subnets |-> <<"subnet-b">>,
      inbound_rules |-> DenyRules(DisplayLimit - 1) \o <<ReservedAllowRule, SshRule>>],
     [associated_subnets |-> <<"subnet-c", "subnet-a">>,
      inbound_rules |-> <<MalformedRule>>],
     [associated_subnets |-> <<"subnet-b">>,
      inbound_rules |-> <<Http200Rule, UnnumberedRule>>],
     [associated_subnets |-> <<"subnet-a">>,
      inbound_rules |-> <<NoProtocolRule>>],
     [associated_subnets |-> <<"subnet-b">>,
      inbound_rules |-> <<NoCidrRule>>]}

\* The i-th NACL of a VPC: only the first one has a name and is the default.
NaclIdentity(i) ==
    IF i = 1
    THEN [nacl_id |-> "acl-1", name |-> "default-acl", is_default |-> TRUE]
    ELSE IF i = 2 THEN [nacl_id |-> "acl-2"]
    ELSE [nacl_id |-> "acl-3"]

NaclLists ==
    UNION {{[i \in 1..k |-> Merge(choice[i], NaclIdentity(i))] :
               choice \in [1..k -> NaclChoices]} : k \in 0..MaxNacls}

SubnetPool ==
    <<[subnet_id |-> "subnet-a", name |-> "web-public-1a", subnet_type |-> "Public"],
      [subnet_id |-> "subnet-b", subnet_type |-> "Private"],
      [subnet_id |-> "subnet-c", name |-> "data-1a", subnet_type |-> "Isolated"],
      [subnet_id |-> "subnet-d", name |-> "spare-1a"]>>

SubnetLists == {Take(SubnetPool, n) : n \in 0..MaxSubnets}

Vpcs == [subnets : SubnetLists, nacls : NaclLists]

\* The document `[]`: valid JSON that is not an object.
JsonArray == <<>>

Documents ==
    {[region |-> "eu-west-1", vpcs |-> <<vpc>>] : vpc \in Vpcs}
        \cup {[region |-> "eu-west-1"], JsonArray}

CommandLines == {"file", "none", "help"}

FileStates == {"missing", "invalid_json", "unreadable", "ok"}

(***************************************************************************)
(* The report run: main                                                    *)
(***************************************************************************)
EngineIdle ==
    /\ rule = SshRule
    /\ direction = "inbound"
    /\ risk = NoVerdict
    /\ nacl_info = NoBinding
    /\ security_score = NoScore
    /\ calls = <<>>
    /\ pc = "idle"

ReportInit ==
    /\ EngineIdle
    /\ argv \in CommandLines
    /\ file \in [state : FileStates]
    /\ data = NoData
    /\ rpc = "parse_args"
    /\ vpc_index = 0
    /\ nacl_map = <<>>
    /\ vpc_summary = NoSummary
    /\ cards = <<>>
    /\ raised = "none"
    /\ report_written = FALSE
    /\ exit_code = NoExit
    /\ ExplainIdle

CurrentVpc == data["vpcs"][vpc_index]

\* parser.parse_args(): a usage error exits with 2, -h prints the help and exits with 0
ParseArgs ==
    /\ rpc = "parse_args"
    /\ IF argv = "file"
       THEN rpc' = "load" /\ exit_code' = exit_code
       ELSE rpc' = "exited" /\ exit_code' = (IF argv = "none" THEN 2 ELSE 0)
    /\ UNCHANGED <<argv, file, data, vpc_index, nacl_map, vpc_summary, cards,
                   report_written>>
    /\ UNCHANGED <<raised, engineVars, explainVars>>

\* EnhancedNetworkVisualizer(args.discovery_file): _load_data
LoadData ==
    /\ rpc = "load"
    /\ \/ /\ file["state"] \in {"missing", "invalid_json"}
          /\ exit_code' = 1
          /\ rpc' = "exited"
          /\ UNCHANGED <<data, raised>>
       \/ /\ file["state"] = "unreadable"
          /\ rpc' = "raised"
          /\ raised' = "PermissionError"
          /\ UNCHANGED <<exit_code, data>>
       \/ /\ file["state"] = "ok"
          /\ data' \in Documents
          /\ rpc' = "report"
          /\ UNCHANGED <<exit_code, raised>>
    /\ UNCHANGED <<argv, file, vpc_index, nacl_map, vpc_summary, cards,
                   report_written>>
    /\ UNCHANGED <<engineVars, explainVars>>

\* create_html_report up to the loop over the VPCs
BeginReport ==
    /\ rpc = "report"
    /\ IF data = JsonArray
       THEN rpc' = "raised" /\ raised' = "AttributeError" /\ vpc_index' = vpc_index
       ELSE IF Len(Get(data, "vpcs", <<>>)) = 0
       THEN rpc' = "write" /\ UNCHANGED <<raised, vpc_index>>
       ELSE rpc' = "build_map" /\ vpc_index' = 1 /\ raised' = raised
    /\ UNCHANGED <<argv, file, data, nacl_map, vpc_summary, cards,
                   report_written, exit_code>>
    /\ UNCHANGED <<engineVars, explainVars>>

\* Mutation: the rule lists of the VPC's NACLs are cut in place (del rules[5:]).
BuildNaclMapInPlace ==
    /\ rpc = "build_map"
    /\ nacl_map' = _build_nacl_map(CurrentVpc)
    /\ data' = [data EXCEPT !["vpcs"][vpc_index]["nacls"] =
                   [k \in DOMAIN @ |->
                       [key \in DOMAIN @[k] |->
                           IF key \in {"inbound_rules", "outbound_rules"}
                           THEN Take(@[k][key], DisplayLimit)
                           ELSE @[k][key]]]]
    /\ vpc_summary' = NoSummary
    /\ cards' = <<>>
    /\ rpc' = "summary"
    /\ UNCHANGED <<argv, file, vpc_index, report_written, exit_code>>
    /\ UNCHANGED <<raised, engineVars, explainVars>>

\* _generate_vpc_section_with_flow: nacl_map = self._build_nacl_map(vpc)
BuildNaclMap ==
    /\ rpc = "build_map"
    /\ nacl_map' = _build_nacl_map(CurrentVpc)
    /\ vpc_summary' = NoSummary
    /\ cards' = <<>>
    /\ rpc' = "summary"
    /\ UNCHANGED <<argv, file, data, vpc_index, report_written, exit_code>>
    /\ UNCHANGED <<raised, engineVars, explainVars>>

\* Mutation: a KeyError of the scorer is swallowed and the summary is empty.
SummarizeSwallows ==
    /\ rpc = "summary"
    /\ IF SummaryRaises(CurrentVpc, nacl_map)
       THEN vpc_summary' = [all_risks |-> EmptyRisks, total_issues |-> 0,
                            severity |-> "no_issues"]
       ELSE vpc_summary' = _generate_vpc_security_summary(CurrentVpc, nacl_map)
    /\ rpc' = "cards"
    /\ raised' = raised
    /\ UNCHANGED <<argv, file, data, vpc_index, nacl_map, cards,
                   report_written, exit_code>>
    /\ UNCHANGED <<engineVars, explainVars>>

\* _generate_vpc_section_with_flow: self._generate_vpc_security_summary(vpc, nacl_map)
Summarize ==
    /\ rpc = "summary"
    /\ IF SummaryRaises(CurrentVpc, nacl_map)
       THEN rpc' = "raised" /\ raised' = "KeyError" /\ vpc_summary' = vpc_summary
       ELSE /\ vpc_summary' = _generate_vpc_security_summary(CurrentVpc, nacl_map)
            /\ rpc' = "cards"
            /\ raised' = raised
    /\ UNCHANGED <<argv, file, data, vpc_index, nacl_map, cards,
                   report_written, exit_code>>
    /\ UNCHANGED <<engineVars, explainVars>>

\* _generate_vpc_section_with_flow: the public and the private subnet cards
RenderCards ==
    /\ rpc = "cards"
    /\ IF CardsRaise(CurrentVpc, nacl_map)
       THEN rpc' = "raised" /\ raised' = "KeyError" /\ UNCHANGED <<cards, vpc_index>>
       ELSE /\ cards' = SubnetCards(CurrentVpc, nacl_map)
            /\ raised' = raised
            /\ IF vpc_index < Len(data["vpcs"])
               THEN rpc' = "build_map" /\ vpc_index' = vpc_index + 1
               ELSE rpc' = "write" /\ vpc_index' = vpc_index
    /\ UNCHANGED <<argv, file, data, nacl_map, vpc_summary, report_written,
                   exit_code>>
    /\ UNCHANGED <<engineVars, explainVars>>

\* create_html_report: open(filename, 'w') and f.write, which the disk may refuse
WriteReport ==
    /\ rpc = "write"
    /\ \E disk_ok \in BOOLEAN :
          IF disk_ok
          THEN report_written' = TRUE /\ rpc' = "written" /\ raised' = raised
          ELSE report_written' = report_written /\ rpc' = "raised" /\ raised' = "OSError"
    /\ UNCHANGED <<argv, file, data, vpc_index, nacl_map, vpc_summary, cards,
                   exit_code>>
    /\ UNCHANGED <<engineVars, explainVars>>

\* main: return 0
ReturnOk ==
    /\ rpc = "written"
    /\ exit_code' = 0
    /\ rpc' = "exited"
    /\ UNCHANGED <<argv, file, data, vpc_index, nacl_map, vpc_summary, cards,
                   report_written>>
    /\ UNCHANGED <<raised, engineVars, explainVars>>

\* Mutation: the handler returns 0.
HandleExceptionReturnsZero ==
    /\ rpc = "raised"
    /\ exit_code' = 0
    /\ rpc' = "exited"
    /\ UNCHANGED <<argv, file, data, vpc_index, nacl_map, vpc_summary, cards,
                   report_written>>
    /\ UNCHANGED <<raised, engineVars, explainVars>>

\* main: except Exception ... return 1
HandleException ==
    /\ rpc = "raised"
    /\ exit_code' = 1
    /\ rpc' = "exited"
    /\ UNCHANGED <<argv, file, data, vpc_index, nacl_map, vpc_summary, cards,
                   report_written>>
    /\ UNCHANGED <<raised, engineVars, explainVars>>

ReportNext ==
    \/ ParseArgs
    \/ LoadData
    \/ BeginReport
    \/ BuildNaclMap
    \/ Summarize
    \/ RenderCards
    \/ WriteReport
    \/ ReturnOk
    \/ HandleException

SpecReport == ReportInit /\ [][ReportNext]_vars

(***************************************************************************)
(* _interpret_cidr                                                         *)
(*                                                                         *)
(* The descriptions are the returned texts without their leading emoji.    *)
(***************************************************************************)
\* str.startswith
StartsWith(s, prefix) ==
    Len(s) >= Len(prefix) /\ SubSeq(s, 1, Len(prefix)) = prefix

\* `marker in s` on strings
Contains(s, marker) ==
    \E i \in 1..(Len(s) - Len(marker) + 1) :
        SubSeq(s, i, i + Len(marker) - 1) = marker

\* Mutation: the markers are tested before the address prefixes.
_interpret_cidr_markers_first(cidr) ==
    IF cidr = "0.0.0.0/0" THEN "Internet (all IPv4 addresses)"
    ELSE IF Contains(cidr, "/32") THEN "Single IP address"
    ELSE IF Contains(cidr, "/28") THEN "Small subnet (16 IPs)"
    ELSE IF Contains(cidr, "/24") THEN "Standard subnet (256 IPs)"
    ELSE IF Contains(cidr, "/22") THEN "Medium subnet (1024 IPs)"
    ELSE IF Contains(cidr, "/16") THEN "Large subnet (65k IPs)"
    ELSE IF StartsWith(cidr, "10.") THEN "Internal VPC network"
    ELSE IF StartsWith(cidr, "172.16.") \/ StartsWith(cidr, "172.17.")
    THEN "Internal network (RFC 1918)"
    ELSE IF StartsWith(cidr, "192.168.") THEN "Private network (RFC 1918)"
    ELSE "Specific network"

_interpret_cidr(cidr) ==
    IF cidr = "0.0.0.0/0" THEN "Internet (all IPv4 addresses)"
    ELSE IF StartsWith(cidr, "10.") THEN "Internal VPC network"
    ELSE IF StartsWith(cidr, "172.16.") \/ StartsWith(cidr, "172.17.")
    THEN "Internal network (RFC 1918)"
    ELSE IF StartsWith(cidr, "192.168.") THEN "Private network (RFC 1918)"
    ELSE IF Contains(cidr, "/32") THEN "Single IP address"
    ELSE IF Contains(cidr, "/28") THEN "Small subnet (16 IPs)"
    ELSE IF Contains(cidr, "/24") THEN "Standard subnet (256 IPs)"
    ELSE IF Contains(cidr, "/22") THEN "Medium subnet (1024 IPs)"
    ELSE IF Contains(cidr, "/16") THEN "Large subnet (65k IPs)"
    ELSE "Specific network"

\* Network addresses and prefix lengths of the CIDR texts of the calls.
Addresses ==
    {"0.0.0.0", "10.0.0.0", "10.1.2.3", "110.0.0.0", "172.16.0.0",
     "172.17.5.0", "172.18.0.0", "172.160.0.0", "192.168.1.0", "192.16.8.0",
     "203.0.113.7", "100.64.0.0"}

PrefixLengths == {"/0", "/8", "/16", "/20", "/22", "/24", "/28", "/32"}

\* Texts that hold two of the markers; the document's cidr is any string.
DoubleMarked ==
    {"203.0.113.7/28/32", "203.0.113.7/24/28", "203.0.113.7/22/24",
     "203.0.113.7/16/22"}

CidrTexts == {a \o m : a \in Addresses, m \in PrefixLengths} \cup DoubleMarked

ExplainInit ==
    /\ rule = SshRule
    /\ direction = "inbound"
    /\ risk = NoVerdict
    /\ nacl_info = NoBinding
    /\ security_score = NoScore
    /\ calls = <<>>
    /\ pc = "idle"
    /\ ReportIdle
    /\ cidr_arg \in CidrTexts
    /\ cidr_explain = NotExplained

\* cidr_explain = self._interpret_cidr(cidr)
InterpretCidr ==
    /\ cidr_explain = NotExplained
    /\ cidr_explain' = _interpret_cidr(cidr_arg)
    /\ UNCHANGED <<cidr_arg, engineVars, reportVars>>

ExplainNext == InterpretCidr

SpecExplain == ExplainInit /\ [][ExplainNext]_vars

(***************************************************************************)
(* Properties of the rule classifier                                       *)
(***************************************************************************)
NoRisk == [level |-> "none", reason |-> ""]

HasPort(r) == "port_range" \in DOMAIN r

InboundAllow(r, dir) == r["action"] = "allow" /\ dir = "inbound"

FromInternet(r) == r["cidr"] = InternetCidr

\* The classifier has returned `risk` for (rule, direction) with the rule from 0.0.0.0/0.
InternetVerdict ==
    pc = "return" /\ InboundAllow(rule, direction) /\ FromInternet(rule) /\ HasPort(rule)

TablePorts ==
    CriticalPorts \cup HighPorts \cup MediumPorts \cup LowPorts \cup {HttpsPort}

Rank(level) == CHOOSE i \in 1..Len(Levels) : Levels[i] = level

InternetHttps(r) ==
    /\ r["action"] = "allow"
    /\ FromInternet(r)
    /\ HasPort(r)
    /\ r["port_range"] = HttpsPort

BucketEntries(score) ==
    UNION {{score["risks"][l][i] : i \in DOMAIN score["risks"][l]} :
              l \in DOMAIN score["risks"]}

\* C1: a rule whose action is not 'allow', or that is classified with a
\* direction other than 'inbound', gets level 'none' and an empty reason,
\* whatever its cidr and port_range are.
C1_OnlyInboundAllowFlagged ==
    (pc = "return" /\ (rule["action"] # "allow" \/ direction # "inbound"))
        => risk = NoRisk

C1_Witness ==
    /\ pc = "return"
    /\ rule["action"] = "deny"
    /\ direction = "inbound"
    /\ FromInternet(rule)
    /\ HasPort(rule)
    /\ rule["port_range"] = "22"
    /\ risk["level"] = "none"

C4_MediumIffMediumPort ==
    InternetVerdict =>
        (risk["level"] = "medium" <=> rule["port_range"] \in MediumPorts)

C4_Witness ==
    /\ InternetVerdict
    /\ rule["port_range"] = "5000"
    /\ risk["level"] = "medium"

\* C5: for an inbound allow rule from 0.0.0.0/0 the level is 'low' exactly
\* when port_range is '80'.
C5_LowIffHttp ==
    InternetVerdict =>
        (risk["level"] = "low" <=> rule["port_range"] = "80")

C5_Witness ==
    /\ InternetVerdict
    /\ rule["port_range"] = "80"
    /\ risk["level"] = "low"

\* C6: an inbound allow rule from 0.0.0.0/0 on port 443 gets level 'none'
\* with a non-empty reason; no other input gets 'none' with a non-empty
\* reason; and the scorer never buckets or counts such a rule.
C6_HttpsAcceptable ==
    /\ (InternetVerdict /\ rule["port_range"] = HttpsPort)
           => (risk["level"] = "none" /\ risk["reason"] # "")
    /\ (pc = "return" /\ risk["level"] = "none" /\ risk["reason"] # "")
           => (InternetVerdict /\ rule["port_range"] = HttpsPort)
    /\ security_score # NoScore =>
           /\ \A e \in BucketEntries(security_score) : ~InternetHttps(e["rule"])
           /\ security_score["total_issues"] <=
                  Cardinality({i \in DOMAIN nacl_info["inbound_rules"] :
                                  ~InternetHttps(nacl_info["inbound_rules"][i])})
           /\ (\A i \in DOMAIN nacl_info["inbound_rules"] :
                   InternetHttps(nacl_info["inbound_rules"][i]))
                  => security_score["overall"] = "secure"

C6_Witness ==
    /\ InternetVerdict
    /\ rule["port_range"] = HttpsPort
    /\ risk["level"] = "none"
    /\ risk["reason"] # ""
    /\ security_score # NoScore
    /\ Len(nacl_info["inbound_rules"]) = 2
    /\ nacl_info["inbound_rules"][1] = rule
    /\ nacl_info["inbound_rules"][2] = SshRule
    /\ security_score["total_issues"] = 1

\* C7: port matching is exact-string: an inbound allow rule from 0.0.0.0/0
\* whose port_range is none of the table strings (a range containing a
\* listed port, or '22-22', included) gets level 'none' and an empty reason.
C7_UnlistedPortNotFlagged ==
    (InternetVerdict /\ rule["port_range"] \notin TablePorts) => risk = NoRisk

C7_Witness ==
    /\ InternetVerdict
    /\ rule["port_range"] = "20-25"
    /\ risk["level"] = "none"

\* C8: an inbound allow rule whose cidr is not exactly 0.0.0.0/0 gets level
\* 'medium' when port_range is '0-65535' or 'All', and level 'none' with an
\* empty reason for every other port_range.
C8_NonInternetSource ==
    (pc = "return" /\ InboundAllow(rule, direction) /\ ~FromInternet(rule)
        /\ HasPort(rule))
        => IF rule["port_range"] \in AllPortsMarkers
           THEN risk["level"] = "medium"
           ELSE risk = NoRisk

C8_Witness ==
    /\ pc = "return"
    /\ InboundAllow(rule, direction)
    /\ rule["cidr"] = "10.0.0.0/16"
    /\ HasPort(rule)
    /\ rule["port_range"] = "0-65535"
    /\ risk["level"] = "medium"

\* C9: with action, direction and port_range fixed, the level for a cidr
\* other than 0.0.0.0/0 is never higher than the level for 0.0.0.0/0, and it
\* is strictly lower for an inbound allow rule on '0-65535' or 'All'.
C9_MonotoneInSourceScope ==
    \A i \in DOMAIN calls : \A j \in DOMAIN calls :
        (/\ ~FromInternet(calls[i]["rule"])
         /\ calls[j]["rule"] = Widened(calls[i]["rule"])
         /\ calls[j]["direction"] = calls[i]["direction"])
        => /\ Rank(calls[i]["risk"]["level"]) <= Rank(calls[j]["risk"]["level"])
           /\ (/\ InboundAllow(calls[i]["rule"], calls[i]["direction"])
               /\ HasPort(calls[i]["rule"])
               /\ calls[i]["rule"]["port_range"] \in AllPortsMarkers)
              => Rank(calls[i]["risk"]["level"]) < Rank(calls[j]["risk"]["level"])

C9_Witness ==
    /\ Len(calls) >= 2
    /\ calls[1]["rule"]["cidr"] = "10.0.0.0/16"
    /\ InboundAllow(calls[1]["rule"], calls[1]["direction"])
    /\ HasPort(calls[1]["rule"])
    /\ calls[1]["rule"]["port_range"] = "All"
    /\ calls[2]["rule"] = Widened(calls[1]["rule"])
    /\ calls[2]["direction"] = calls[1]["direction"]
    /\ calls[1]["risk"]["level"] = "medium"
    /\ calls[2]["risk"]["level"] = "critical"

SecureScore == [overall |-> "secure", risks |-> EmptyRisks, total_issues |-> 0]

\* The section of the VPC has been generated: nacl_map, vpc_summary and
\* cards are those of the VPC.
SectionDone == rpc = "write" /\ vpc_index > 0

TheVpc == data["vpcs"][vpc_index]

IsBound(subnet_id) == subnet_id \in DOMAIN nacl_map

\* The NACLs of the VPC that list the subnet.
Listing(subnet_id) ==
    {k \in DOMAIN TheVpc["nacls"] :
        /\ "associated_subnets" \in DOMAIN TheVpc["nacls"][k]
        /\ \E j \in DOMAIN TheVpc["nacls"][k]["associated_subnets"] :
               TheVpc["nacls"][k]["associated_subnets"][j] = subnet_id}

\* The NACL the subnet's binding was made from.
BoundNacl(subnet_id) ==
    TheVpc["nacls"][CHOOSE k \in Listing(subnet_id) :
                        \A other \in Listing(subnet_id) : other <= k]

OnlyReservedRules(rules) ==
    \A i \in DOMAIN rules : rules[i]["rule_number"] = ReservedRuleNumber

\* C11: a binding whose inbound rule list is empty (the NACL has no
\* inbound_rules key, or an empty list) or holds only rules numbered 32767
\* is scored secure, with zero issues and four empty buckets.
C11_NothingToScoreIsSecure ==
    SectionDone =>
        \A i \in DOMAIN cards :
            (/\ IsBound(cards[i]["subnet_id"])
             /\ OnlyReservedRules(nacl_map[cards[i]["subnet_id"]]["inbound_rules"]))
            => cards[i]["security_score"] = SecureScore

C11_Witness ==
    /\ SectionDone
    /\ \E i \in DOMAIN cards : \E j \in DOMAIN cards :
          /\ cards[i]["subnet_id"] = "subnet-a"
          /\ IsBound("subnet-a")
          /\ "inbound_rules" \notin DOMAIN BoundNacl("subnet-a")
          /\ cards[i]["security_score"] = SecureScore
          /\ cards[j]["subnet_id"] = "subnet-b"
          /\ IsBound("subnet-b")
          /\ nacl_map["subnet-b"]["inbound_rules"] = <<ReservedAllowRule>>
          /\ cards[j]["security_score"]["overall"] = "secure"
          /\ cards[j]["security_score"]["total_issues"] = 0

NonEmptyBuckets(score) ==
    {l \in DOMAIN score["risks"] : Len(score["risks"][l]) > 0}

\* C12: overall is the highest severity that has a bucketed entry, and it
\* is 'secure' exactly when every bucket is empty, that is when
\* total_issues is 0.
C12_OverallIsHighestBucket ==
    security_score # NoScore =>
        /\ security_score["overall"] = "secure" <=> NonEmptyBuckets(security_score) = {}
        /\ security_score["overall"] = "secure" <=> security_score["total_issues"] = 0
        /\ NonEmptyBuckets(security_score) # {} =>
              /\ security_score["overall"] \in NonEmptyBuckets(security_score)
              /\ \A l \in NonEmptyBuckets(security_score) :
                     Rank(l) <= Rank(security_score["overall"])

C12_Witness ==
    /\ security_score # NoScore
    /\ Len(security_score["risks"]["low"]) = 1
    /\ Len(security_score["risks"]["critical"]) = 1
    /\ security_score["overall"] = "critical"

\* The rule_number and reason of the entries a bucket must hold: one per
\* inbound rule numbered below 32767 whose verdict has that level, in order.
ExpectedBucket(rules, level) ==
    LET Flagged(r) ==
            /\ r["rule_number"] < ReservedRuleNumber
            /\ _analyze_security_risk(r, "inbound")["level"] = level
        flagged == SelectSeq(rules, Flagged)
    IN  [i \in DOMAIN flagged |->
            [rule_number |-> flagged[i]["rule_number"],
             reason |-> _analyze_security_risk(flagged[i], "inbound")["reason"]]]

BucketContent(score, level) ==
    [i \in DOMAIN score["risks"][level] |->
        [rule_number |-> score["risks"][level][i]["rule_number"],
         reason |-> score["risks"][level][i]["reason"]]]

\* C13: every scored inbound rule with a critical, high, medium or low
\* verdict has exactly one entry, in the bucket of that level, with its
\* rule_number and the verdict's reason; other rules have none; and
\* total_issues is the sum of the four bucket lengths.
C13_OneEntryPerFlaggedRule ==
    security_score # NoScore =>
        /\ DOMAIN security_score["risks"] = {"critical", "high", "medium", "low"}
        /\ \A level \in DOMAIN security_score["risks"] :
               BucketContent(security_score, level)
                   = ExpectedBucket(nacl_info["inbound_rules"], level)
        /\ security_score["total_issues"] =
               Len(security_score["risks"]["critical"])
                 + Len(security_score["risks"]["high"])
                 + Len(security_score["risks"]["medium"])
                 + Len(security_score["risks"]["low"])

C13_Witness ==
    /\ security_score # NoScore
    /\ Len(nacl_info["inbound_rules"]) = 2
    /\ nacl_info["inbound_rules"][1] = rule
    /\ risk["level"] = "low"
    /\ nacl_info["inbound_rules"][2] = SshRule
    /\ Len(security_score["risks"]["low"]) = 1
    /\ security_score["risks"]["low"][1]["rule_number"] = 100
    /\ Len(security_score["risks"]["critical"]) = 1
    /\ security_score["total_issues"] = 2

(***************************************************************************)
(* Properties of the report run                                            *)
(***************************************************************************)
SummaryDone == vpc_summary # NoSummary

NaclMapBuilt == vpc_index > 0 /\ rpc # "build_map"

RuleNumbersOf(lines) == {lines[i]["rule_number"] : i \in DOMAIN lines}

WithoutReserved(info) ==
    LET NotReserved(r) == r["rule_number"] # ReservedRuleNumber
    IN  [info EXCEPT !["inbound_rules"] = SelectSeq(@, NotReserved)]

\* C14: a rule numbered 32767 has no entry in a subnet or VPC risk bucket,
\* does not change overall or total_issues, and is not rendered in the
\* inbound or outbound rule list of a subnet card.
C14_ReservedRuleExcluded ==
    /\ SummaryDone =>
          \A level \in DOMAIN vpc_summary["all_risks"] :
              ReservedRuleNumber \notin RuleNumbersOf(vpc_summary["all_risks"][level])
    /\ SectionDone =>
          \A i \in DOMAIN cards :
              IsBound(cards[i]["subnet_id"]) =>
                  /\ \A level \in DOMAIN cards[i]["security_score"]["risks"] :
                         ReservedRuleNumber \notin
                             RuleNumbersOf(cards[i]["security_score"]["risks"][level])
                  /\ cards[i]["security_score"] =
                         _calculate_subnet_security_score(
                             WithoutReserved(nacl_map[cards[i]["subnet_id"]]))
                  /\ ReservedRuleNumber \notin RuleNumbersOf(cards[i]["issues"])
                  /\ ReservedRuleNumber \notin RuleNumbersOf(cards[i]["acl"]["inbound"])
                  /\ ReservedRuleNumber \notin RuleNumbersOf(cards[i]["acl"]["outbound"])

C14_Witness ==
    /\ SectionDone
    /\ IsBound("subnet-b")
    /\ nacl_map["subnet-b"]["inbound_rules"] = <<ReservedAllowRule>>
    /\ Len(nacl_map["subnet-b"]["outbound_rules"]) = 2
    /\ nacl_map["subnet-b"]["outbound_rules"][2]["rule_number"] = ReservedRuleNumber
    /\ \E i \in DOMAIN cards :
          /\ cards[i]["subnet_id"] = "subnet-b"
          /\ cards[i]["acl"]["inbound"] = <<>>
          /\ Len(cards[i]["acl"]["outbound"]) = 1
          /\ cards[i]["badge"]["total_issues"] = 0
    /\ vpc_summary["severity"] = "no_issues"

\* The subnets of the VPC that have a binding, in the VPC's order.
BoundSubnets ==
    LET Bound(subnet) == IsBound(subnet["subnet_id"])
    IN  SelectSeq(TheVpc["subnets"], Bound)

ScoreOf(subnet) == _calculate_subnet_security_score(nacl_map[subnet["subnet_id"]])

SeverityRank(severity) ==
    IF severity \in {"secure", "no_issues"} THEN 0 ELSE Rank(severity)

\* C15: the VPC severity is the maximum of the overall values of the scores
\* of the VPC's bound subnets; when all are secure, or there is none, the
\* summary reports no security issues.
C15_VpcSeverityIsMaximum ==
    SummaryDone =>
        /\ \A i \in DOMAIN BoundSubnets :
               SeverityRank(ScoreOf(BoundSubnets[i])["overall"])
                   <= SeverityRank(vpc_summary["severity"])
        /\ vpc_summary["severity"] # "no_issues" =>
               \E i \in DOMAIN BoundSubnets :
                   ScoreOf(BoundSubnets[i])["overall"] = vpc_summary["severity"]
        /\ vpc_summary["severity"] \in {"no_issues", "low", "medium", "high", "critical"}

C15_Witness ==
    /\ SummaryDone
    /\ Len(BoundSubnets) = 2
    /\ ScoreOf(BoundSubnets[1])["overall"] = "critical"
    /\ ScoreOf(BoundSubnets[2])["overall"] = "high"
    /\ vpc_summary["severity"] = "critical"

\* The entry the VPC summary must hold for an entry of a subnet's score.
ExpectedTag(subnet, item) ==
    [subnet_name |-> IF "name" \in DOMAIN subnet THEN subnet["name"] ELSE "N/A",
     subnet_id |-> subnet["subnet_id"],
     rule_number |-> item["rule_number"],
     reason |-> item["reason"]]

Occurrences(seq, x) == Cardinality({i \in DOMAIN seq : seq[i] = x})

RECURSIVE SumOfTotals(_)
SumOfTotals(subnets) ==
    IF Len(subnets) = 0
    THEN 0
    ELSE ScoreOf(Head(subnets))["total_issues"] + SumOfTotals(Tail(subnets))

SshReason ==
    "CRITICAL: SSH port 22 open to entire Internet! This allows anyone to attempt SSH access. Restrict to specific IPs."

\* C16: every entry of a bound subnet's score at a level appears in the VPC
\* risks at that level, tagged with the subnet's name and id, as many times
\* as in the subnet's bucket; the VPC holds nothing else, and its total is
\* the sum of the subnets' total_issues.
C16_SubnetEntriesInVpcSummary ==
    SummaryDone =>
        /\ \A level \in DOMAIN vpc_summary["all_risks"] :
              /\ \A i \in DOMAIN BoundSubnets :
                     \A k \in DOMAIN ScoreOf(BoundSubnets[i])["risks"][level] :
                         LET item == ScoreOf(BoundSubnets[i])["risks"][level][k]
                             same == {m \in DOMAIN ScoreOf(BoundSubnets[i])["risks"][level] :
                                         ExpectedTag(BoundSubnets[i],
                                             ScoreOf(BoundSubnets[i])["risks"][level][m])
                                           = ExpectedTag(BoundSubnets[i], item)}
                         IN  Occurrences(vpc_summary["all_risks"][level],
                                         ExpectedTag(BoundSubnets[i], item))
                                 = Cardinality(same)
              /\ \A j \in DOMAIN vpc_summary["all_risks"][level] :
                     \E i \in DOMAIN BoundSubnets :
                         \E k \in DOMAIN ScoreOf(BoundSubnets[i])["risks"][level] :
                             vpc_summary["all_risks"][level][j]
                                 = ExpectedTag(BoundSubnets[i],
                                       ScoreOf(BoundSubnets[i])["risks"][level][k])
        /\ vpc_summary["total_issues"] = SumOfTotals(BoundSubnets)
        /\ vpc_summary["total_issues"] = TotalIssues(vpc_summary["all_risks"])

C16_Witness ==
    /\ SectionDone
    /\ IsBound("subnet-a")
    /\ nacl_map["subnet-a"]["inbound_rules"] = <<SshRule>>
    /\ \E i \in DOMAIN cards :
          /\ cards[i]["subnet_id"] = "subnet-a"
          /\ cards[i]["badge"] = [overall |-> "critical", total_issues |-> 1]
    /\ vpc_summary["all_risks"]["critical"] =
          <<[subnet_name |-> "web-public-1a", subnet_id |-> "subnet-a",
             rule_number |-> 100, reason |-> SshReason]>>

UnboundSubnets ==
    LET Unbound(subnet) == ~IsBound(subnet["subnet_id"])
    IN  SelectSeq(TheVpc["subnets"], Unbound)

CardsOfBound ==
    LET Bound(card) == IsBound(card["subnet_id"])
    IN  SelectSeq(cards, Bound)

\* A rule the scorer cannot read: it lacks rule_number, or it is numbered
\* below 32767 and lacks action, protocol or cidr.
LacksRequiredField(r) ==
    \/ "rule_number" \notin DOMAIN r
    \/ /\ r["rule_number"] < ReservedRuleNumber
       /\ {"action", "protocol", "cidr"} \ DOMAIN r # {}

\* The bound subnets of the VPC whose binding holds a rule the scorer or
\* the card cannot read.
MalformedBindings ==
    {i \in DOMAIN BoundSubnets :
        \E k \in DOMAIN nacl_map[BoundSubnets[i]["subnet_id"]]["inbound_rules"] :
            LacksRequiredField(nacl_map[BoundSubnets[i]["subnet_id"]]["inbound_rules"][k])}

\* C17: a subnet without binding adds no entry to the VPC risks and does
\* not change the VPC severity, it raises no error, the summary and the
\* cards of the other subnets are what they are without it, and its own
\* card has no security badge.
C17_UnboundSubnetContributesNothing ==
    /\ SummaryDone =>
          /\ vpc_summary = _generate_vpc_security_summary(
                               [TheVpc EXCEPT !["subnets"] = BoundSubnets], nacl_map)
          /\ \A level \in DOMAIN vpc_summary["all_risks"] :
                 \A j \in DOMAIN vpc_summary["all_risks"][level] :
                     IsBound(vpc_summary["all_risks"][level][j]["subnet_id"])
    /\ (raised = "KeyError") => MalformedBindings # {}
    /\ SectionDone =>
          /\ CardsOfBound = SubnetCards([TheVpc EXCEPT !["subnets"] = BoundSubnets], nacl_map)
          /\ \A i \in DOMAIN cards :
                 ~IsBound(cards[i]["subnet_id"]) =>
                     /\ cards[i]["badge"] = NoBadge
                     /\ cards[i]["issues"] = <<>>
                     /\ cards[i]["acl"] = NoAcl
          /\ \A i \in DOMAIN UnboundSubnets :
                 Get(UnboundSubnets[i], "subnet_type", "None") \in {"Public", "Private"}
                     => \E j \in DOMAIN cards :
                            cards[j]["subnet_id"] = UnboundSubnets[i]["subnet_id"]

C17_Witness ==
    /\ SectionDone
    /\ IsBound("subnet-a")
    /\ ~IsBound("subnet-b")
    /\ Len(cards) = 2
    /\ cards[1]["subnet_id"] = "subnet-a"
    /\ cards[1]["badge"]["overall"] = "critical"
    /\ cards[2]["subnet_id"] = "subnet-b"
    /\ cards[2]["badge"] = NoBadge
    /\ vpc_summary["total_issues"] = 1

\* C18: a subnet id has one binding, the one made from the last NACL of the
\* VPC's nacls that lists it: its id, name, is_default and rules.
C18_LastNaclWins ==
    NaclMapBuilt =>
        /\ DOMAIN nacl_map =
               {id \in {"subnet-a", "subnet-b", "subnet-c", "subnet-d"} : Listing(id) # {}}
        /\ \A id \in DOMAIN nacl_map :
               /\ nacl_map[id]["nacl_id"] = BoundNacl(id)["nacl_id"]
               /\ nacl_map[id]["nacl_name"] =
                      (IF "name" \in DOMAIN BoundNacl(id) THEN BoundNacl(id)["name"] ELSE "N/A")
               /\ nacl_map[id]["is_default"] =
                      (IF "is_default" \in DOMAIN BoundNacl(id)
                       THEN BoundNacl(id)["is_default"] ELSE FALSE)
               /\ nacl_map[id]["inbound_rules"] =
                      (IF "inbound_rules" \in DOMAIN BoundNacl(id)
                       THEN Take(BoundNacl(id)["inbound_rules"], DisplayLimit) ELSE <<>>)
               /\ nacl_map[id]["outbound_rules"] =
                      (IF "outbound_rules" \in DOMAIN BoundNacl(id)
                       THEN Take(BoundNacl(id)["outbound_rules"], DisplayLimit) ELSE <<>>)

C18_Witness ==
    /\ NaclMapBuilt
    /\ Listing("subnet-a") = {1, 2}
    /\ Get(TheVpc["nacls"][1], "inbound_rules", <<>>) = <<SshRule>>
    /\ Get(TheVpc["nacls"][2], "inbound_rules", <<>>) = <<Http200Rule>>
    /\ nacl_map["subnet-a"]["nacl_id"] = "acl-2"
    /\ nacl_map["subnet-a"]["nacl_name"] = "N/A"
    /\ nacl_map["subnet-a"]["inbound_rules"] = <<Http200Rule>>

\* The whole inbound rule list of the NACL a subnet is bound to.
FullInboundRules(subnet_id) == Get(BoundNacl(subnet_id), "inbound_rules", <<>>)

\* The positions of the NACL's inbound rules that the classifier flags.
FlaggedPositions(subnet_id) ==
    {k \in DOMAIN FullInboundRules(subnet_id) :
        /\ FullInboundRules(subnet_id)[k]["rule_number"] < ReservedRuleNumber
        /\ ~ClassifyRaises(FullInboundRules(subnet_id)[k])
        /\ _analyze_security_risk(FullInboundRules(subnet_id)[k], "inbound")["level"]
               # "none"}

\* C19: every flagged inbound rule of the bound NACL, at whatever position
\* of inbound_rules, is in the subnet's risks at its level, counts in
\* total_issues, and the subnet and VPC severities are at least its level.
C19_ScoringCoversAllRules ==
    SectionDone =>
        \A i \in DOMAIN cards :
            IsBound(cards[i]["subnet_id"]) =>
                /\ \A k \in FlaggedPositions(cards[i]["subnet_id"]) :
                       LET r == FullInboundRules(cards[i]["subnet_id"])[k]
                           v == _analyze_security_risk(r, "inbound")
                       IN  /\ \E m \in DOMAIN cards[i]["security_score"]["risks"][v["level"]] :
                                  cards[i]["security_score"]["risks"][v["level"]][m]
                                      = [rule_number |-> r["rule_number"],
                                         reason |-> v["reason"], rule |-> r]
                           /\ Rank(v["level"])
                                  <= SeverityRank(cards[i]["security_score"]["overall"])
                           /\ Rank(v["level"]) <= SeverityRank(vpc_summary["severity"])
                /\ cards[i]["security_score"]["total_issues"]
                       = Cardinality(FlaggedPositions(cards[i]["subnet_id"]))

\* The failures the run reports with exit code 1.
RunFailed ==
    \/ argv = "file" /\ file["state"] \in {"missing", "invalid_json"}
    \/ raised # "none"

Exited == rpc = "exited"

ScoredRules(subnet_id) ==
    LET full == FullInboundRules(subnet_id)
    IN  [k \in 1..(IF Len(full) < DisplayLimit THEN Len(full) ELSE DisplayLimit)
            |-> full[k]]

\* A subnet of the VPC is bound to a NACL with a scored rule that lacks a
\* required field.
MalformedScoredRule ==
    \E i \in DOMAIN TheVpc["subnets"] :
        /\ Listing(TheVpc["subnets"][i]["subnet_id"]) # {}
        /\ \E k \in DOMAIN ScoredRules(TheVpc["subnets"][i]["subnet_id"]) :
               LacksRequiredField(ScoredRules(TheVpc["subnets"][i]["subnet_id"])[k])

PastSummary == vpc_index > 0 /\ rpc \notin {"build_map", "summary"}

\* C21: a scored inbound rule without action, protocol, cidr or rule_number
\* makes the run fail: no summary and no card is produced from it, the run
\* exits with code 1, and no report file is written; a report file is only
\* written by a run in which nothing was raised.
C21_MalformedRuleFailsRun ==
    /\ (PastSummary /\ MalformedScoredRule) =>
          /\ raised = "KeyError"
          /\ vpc_summary = NoSummary
          /\ cards = <<>>
          /\ ~report_written
          /\ Exited => exit_code = 1
    /\ report_written => raised = "none"

C21_Witness ==
    /\ Exited
    /\ vpc_index > 0
    /\ MalformedScoredRule
    /\ IsBound("subnet-b")
    /\ nacl_map["subnet-b"]["inbound_rules"] = <<Http200Rule, UnnumberedRule>>
    /\ raised = "KeyError"
    /\ exit_code = 1
    /\ ~report_written

Loaded == data # NoData

CidrCheck(cidr, k) ==
    CASE k = 1 -> cidr = "0.0.0.0/0"
      [] k = 2 -> StartsWith(cidr, "10.")
      [] k = 3 -> StartsWith(cidr, "172.16.") \/ StartsWith(cidr, "172.17.")
      [] k = 4 -> StartsWith(cidr, "192.168.")
      [] k = 5 -> Contains(cidr, "/32")
      [] k = 6 -> Contains(cidr, "/28")
      [] k = 7 -> Contains(cidr, "/24")
      [] k = 8 -> Contains(cidr, "/22")
      [] k = 9 -> Contains(cidr, "/16")
      [] OTHER -> TRUE

CidrDescriptions ==
    <<"Internet (all IPv4 addresses)", "Internal VPC network",
      "Internal network (RFC 1918)", "Private network (RFC 1918)",
      "Single IP address", "Small subnet (16 IPs)",
      "Standard subnet (256 IPs)", "Medium subnet (1024 IPs)",
      "Large subnet (65k IPs)", "Specific network">>

FirstCheck(cidr) ==
    CHOOSE k \in DOMAIN CidrDescriptions :
        /\ CidrCheck(cidr, k)
        /\ \A earlier \in 1..(k - 1) : ~CidrCheck(cidr, earlier)

Explained == cidr_explain # NotExplained

\* C23: the description of a CIDR is that of the first check it passes in
\* the order: exactly '0.0.0.0/0', prefix '10.', prefix '172.16.' or
\* '172.17.', prefix '192.168.', then the markers '/32', '/28', '/24',
\* '/22', '/16', else the generic description.
C23_FirstMatchWins ==
    Explained => cidr_explain = CidrDescriptions[FirstCheck(cidr_arg)]

C23_Witness ==
    /\ cidr_arg = "10.1.2.3/32"
    /\ CidrCheck(cidr_arg, 5)
    /\ cidr_explain = "Internal VPC network"

(***************************************************************************)
(* Order, truncation and highlighting                                      *)
(***************************************************************************)
\* The rules of a binding's inbound list that are flagged at a level, in
\* the order of the list.
FlaggedAt(info, level) ==
    LET AtLevel(r) ==
            /\ r["rule_number"] < ReservedRuleNumber
            /\ _analyze_security_risk(r, "inbound")["level"] = level
    IN  SelectSeq(info["inbound_rules"], AtLevel)

\* The entries a VPC bucket must hold for the subnets from position i on.
RECURSIVE EntriesInSubnetOrder(_, _)
EntriesInSubnetOrder(i, level) ==
    IF i > Len(TheVpc["subnets"])
    THEN <<>>
    ELSE LET subnet == TheVpc["subnets"][i]
             flagged == IF IsBound(subnet["subnet_id"])
                        THEN FlaggedAt(nacl_map[subnet["subnet_id"]], level)
                        ELSE <<>>
         IN  [k \in DOMAIN flagged |->
                 [subnet_id |-> subnet["subnet_id"],
                  rule_number |-> flagged[k]["rule_number"]]]
             \o EntriesInSubnetOrder(i + 1, level)

\* C24: the entries of a bucket of a subnet score follow the order of their
\* rules in the binding's inbound list, and the entries of a bucket of the
\* VPC summary follow the subnets' order in the VPC's subnet list and,
\* within a subnet, the order of its rules; nothing is sorted or renumbered.
C24_OrderPreserved ==
    /\ SectionDone =>
          \A i \in DOMAIN cards :
              IsBound(cards[i]["subnet_id"]) =>
                  \A level \in DOMAIN cards[i]["security_score"]["risks"] :
                      [k \in DOMAIN cards[i]["security_score"]["risks"][level] |->
                          cards[i]["security_score"]["risks"][level][k]["rule"]]
                        = FlaggedAt(nacl_map[cards[i]["subnet_id"]], level)
    /\ SummaryDone =>
          \A level \in DOMAIN vpc_summary["all_risks"] :
              [k \in DOMAIN vpc_summary["all_risks"][level] |->
                  [subnet_id |-> vpc_summary["all_risks"][level][k]["subnet_id"],
                   rule_number |-> vpc_summary["all_risks"][level][k]["rule_number"]]]
                = EntriesInSubnetOrder(1, level)

C24_Witness ==
    /\ SectionDone
    /\ Len(TheVpc["nacls"]) = 2
    /\ Get(TheVpc["nacls"][1], "associated_subnets", <<>>) = <<"subnet-b">>
    /\ [k \in DOMAIN vpc_summary["all_risks"]["critical"] |->
           <<vpc_summary["all_risks"]["critical"][k]["subnet_id"],
             vpc_summary["all_risks"]["critical"][k]["rule_number"]>>]
         = << <<"subnet-a", 100>>, <<"subnet-b", 100>>, <<"subnet-b", 90>> >>

Min(a, b) == IF a < b THEN a ELSE b

FullOutboundRules(subnet_id) == Get(BoundNacl(subnet_id), "outbound_rules", <<>>)

\* The list holds the first min(5, n) elements of the full list, in order.
IsFirstFive(kept, full) ==
    /\ Len(kept) = Min(DisplayLimit, Len(full))
    /\ \A k \in DOMAIN kept : kept[k] = full[k]

\* The numbers of the kept rules that are not reserved, in order.
DisplayedNumbers(kept) ==
    LET Shown(r) == r["rule_number"] < ReservedRuleNumber
        shown == SelectSeq(kept, Shown)
    IN  [k \in DOMAIN shown |-> shown[k]["rule_number"]]

\* C25: a binding holds the first min(5, n) inbound and the first min(5, m)
\* outbound rules of its NACL, in their order, each list cut on its own;
\* the cut comes before the 32767 filter, so that a card shows the kept
\* rules that are not reserved and a reserved rule takes one of the slots.
C25_FirstFiveRulesKept ==
    /\ NaclMapBuilt =>
          \A id \in DOMAIN nacl_map :
              /\ IsFirstFive(nacl_map[id]["inbound_rules"], FullInboundRules(id))
              /\ IsFirstFive(nacl_map[id]["outbound_rules"], FullOutboundRules(id))
    /\ SectionDone =>
          \A i \in DOMAIN cards :
              IsBound(cards[i]["subnet_id"]) =>
                  /\ [k \in DOMAIN cards[i]["acl"]["inbound"] |->
                         cards[i]["acl"]["inbound"][k]["rule_number"]]
                       = DisplayedNumbers(
                             SubSeq(FullInboundRules(cards[i]["subnet_id"]), 1,
                                    Min(DisplayLimit,
                                        Len(FullInboundRules(cards[i]["subnet_id"])))))
                  /\ [k \in DOMAIN cards[i]["acl"]["outbound"] |->
                         cards[i]["acl"]["outbound"][k]["rule_number"]]
                       = DisplayedNumbers(
                             SubSeq(FullOutboundRules(cards[i]["subnet_id"]), 1,
                                    Min(DisplayLimit,
                                        Len(FullOutboundRules(cards[i]["subnet_id"])))))

C25_Witness ==
    /\ SectionDone
    /\ IsBound("subnet-b")
    /\ Len(FullInboundRules("subnet-b")) = DisplayLimit + 1
    /\ Len(nacl_map["subnet-b"]["inbound_rules"]) = DisplayLimit
    /\ nacl_map["subnet-b"]["inbound_rules"][DisplayLimit] = ReservedAllowRule
    /\ nacl_map["subnet-b"]["outbound_rules"] = <<>>
    /\ \E i \in DOMAIN cards :
          /\ cards[i]["subnet_id"] = "subnet-b"
          /\ Len(cards[i]["acl"]["inbound"]) = DisplayLimit - 1

\* The levels at which the score holds an entry for the rule number.
LevelsOf(score, rule_number) ==
    {level \in DOMAIN score["risks"] :
        \E m \in DOMAIN score["risks"][level] :
            score["risks"][level][m]["rule_number"] = rule_number}

Highlighted(lines) == {k \in DOMAIN lines : lines[k]["risk_class"] # ""}

\* C26: in a subnet card an inbound rule carries a security-risk class if
\* and only if the subnet's score holds an entry for it, the class names
\* the level of that entry, and the number of highlighted inbound rules is
\* the total_issues of the badge; an outbound rule carries no class.
C26_HighlightAgreesWithScore ==
    SectionDone =>
        \A i \in DOMAIN cards :
            IsBound(cards[i]["subnet_id"]) =>
                /\ \A k \in DOMAIN cards[i]["acl"]["inbound"] :
                       LevelsOf(cards[i]["security_score"],
                                cards[i]["acl"]["inbound"][k]["rule_number"])
                         = (IF cards[i]["acl"]["inbound"][k]["risk_class"] = ""
                            THEN {}
                            ELSE {cards[i]["acl"]["inbound"][k]["risk_class"]})
                /\ Cardinality(Highlighted(cards[i]["acl"]["inbound"]))
                       = cards[i]["badge"]["total_issues"]
                /\ \A k \in DOMAIN cards[i]["acl"]["outbound"] :
                       "risk_class" \notin DOMAIN cards[i]["acl"]["outbound"][k]

C26_Witness ==
    /\ SectionDone
    /\ IsBound("subnet-b")
    /\ nacl_map["subnet-b"]["inbound_rules"] = <<PrivateAllRule, HttpsRule>>
    /\ \E i \in DOMAIN cards :
          /\ cards[i]["subnet_id"] = "subnet-b"
          /\ cards[i]["acl"]["inbound"][1]["risk_class"] = "medium"
          /\ cards[i]["acl"]["inbound"][2]["risk_class"] = ""
          /\ cards[i]["badge"]["total_issues"] = 1

(***************************************************************************)
(* The optional port_range                                                 *)
(***************************************************************************)
\* The classifier has returned `risk` for a rule without port_range.
PortlessVerdict == pc = "return" /\ ~HasPort(rule)

\* C27: a rule without port_range is classified as the same rule with
\* port_range 'All': 'critical' for an inbound allow rule from 0.0.0.0/0,
\* 'medium' for an inbound allow rule from any other cidr, and the
\* classifier returns a verdict for it in every case.
C27_MissingPortRangeIsAll ==
    PortlessVerdict =>
        /\ risk = _analyze_security_risk(Put(rule, "port_range", "All"), direction)
        /\ (InboundAllow(rule, direction) /\ FromInternet(rule))
               => risk["level"] = "critical"
        /\ (InboundAllow(rule, direction) /\ ~FromInternet(rule))
               => risk["level"] = "medium"
        /\ ~InboundAllow(rule, direction) => risk = NoRisk
        /\ calls[Len(calls)] = [rule |-> rule, direction |-> direction, risk |-> risk]

C27_Witness ==
    /\ PortlessVerdict
    /\ InboundAllow(rule, direction)
    /\ rule["cidr"] = "::/0"
    /\ risk["level"] = "medium"

(***************************************************************************)
(* Summary and cards of one VPC section                                    *)
(***************************************************************************)
\* The cards of the section that show the subnet.
CardsOf(subnet_id) == {i \in DOMAIN cards : cards[i]["subnet_id"] = subnet_id}

\* C28: every subnet with an entry in the VPC summary has a card in the
\* section, and the card's badge and issue list come from the score the
\* entry was taken from; this includes subnets whose subnet_type is neither
\* 'Public' nor 'Private' or is missing.
C28_SummarySubnetsHaveCards ==
    SectionDone =>
        \A level \in DOMAIN vpc_summary["all_risks"] :
            \A k \in DOMAIN vpc_summary["all_risks"][level] :
                LET entry == vpc_summary["all_risks"][level][k]
                IN  /\ CardsOf(entry["subnet_id"]) # {}
                    /\ \A i \in CardsOf(entry["subnet_id"]) :
                           /\ cards[i]["badge"]["total_issues"] > 0
                           /\ \E m \in DOMAIN cards[i]["issues"] :
                                  cards[i]["issues"][m] =
                                      [rule_number |-> entry["rule_number"],
                                       reason |-> entry["reason"]]

====
